---- MODULE Spec2Model ----
(***************************************************************************)
(* The task store and worker loop of reagent-systems/orc: a directory      *)
(* based work queue (tasks/pending, tasks/active, tasks/completed,         *)
(* tasks/failed, context/, agents/) shared by independent agent processes. *)
(* Every step below is one filesystem call of one agent (or one await of   *)
(* an external oracle), so the interleavings TLC explores are those the    *)
(* operating system can produce.  save_task is taken as one write, and    *)
(* filesystem calls succeed except inside claim_task, where each of them   *)
(* may raise OSError.                                                      *)
(***************************************************************************)
EXTENDS Integers, Sequences, FiniteSets, TLC

(***************************************************************************)
(* Bounds of the model.                                                    *)
(***************************************************************************)
\* max_retries written by the producer into every task it creates
MaxRetries == 2

(***************************************************************************)
(* Program constants.                                                      *)
(***************************************************************************)
\* lowest and highest fitness score the evaluator is asked for
MinScore == 1
MaxScore == 10

None == "None"

(***************************************************************************)
(* The agent population: one process per agent class that differs in its   *)
(* lifecycle code.  SearchAgent (like FileAgent) stamps claims and retries;*)
(* DatabaseAgent (like GoogleSheetsAgent and TaskBreakdownAgent's base)    *)
(* does neither; APIAgent (like TerminalAgent) hands the pending path to   *)
(* process_task.  git-agent and test-agent carry DatabaseAgent's lifecycle *)
(* code, but their modules do not compile (the body of monitor_workspace   *)
(* is mis-indented), so no such process runs.  TaskBreakdownAgent has      *)
(* DatabaseAgent's lifecycle and its own process_task, which writes        *)
(* subtasks into pending before it completes the task.                     *)
(***************************************************************************)
Agents == {"SearchAgent_1", "DatabaseAgent_1", "APIAgent_1", "TaskBreakdownAgent_1"}

agent_type(a) ==
  CASE a = "SearchAgent_1" -> "SearchAgent"
    [] a = "DatabaseAgent_1" -> "DatabaseAgent"
    [] a = "APIAgent_1" -> "APIAgent"
    [] a = "TaskBreakdownAgent_1" -> "TaskBreakdownAgent"

capabilities(a) ==
  CASE agent_type(a) = "SearchAgent" -> {"web_search", "research", "information_retrieval"}
    [] agent_type(a) = "DatabaseAgent" -> {"database_operations", "sql_queries", "migrations", "data_management"}
    [] agent_type(a) = "APIAgent" -> {"api_testing", "http_requests", "integration_testing", "webhook_handling"}
    [] agent_type(a) = "TaskBreakdownAgent" -> {"task_decomposition", "orchestration", "planning"}

get_threshold(a) ==
  CASE agent_type(a) = "SearchAgent" -> 6
    [] agent_type(a) = "DatabaseAgent" -> 8
    [] agent_type(a) = "APIAgent" -> 7
    [] agent_type(a) = "TaskBreakdownAgent" -> 6

\* self.max_concurrent_tasks: MAX_CONCURRENT_TASKS of the agent's own
\* environment, here 1 for SearchAgent and 2 for APIAgent (3 where it is not set)
max_concurrent_tasks(a) ==
  CASE agent_type(a) = "SearchAgent" -> 1
    [] agent_type(a) = "DatabaseAgent" -> 3
    [] agent_type(a) = "APIAgent" -> 2
    [] agent_type(a) = "TaskBreakdownAgent" -> 3

\* claim_task writes claimed_by / claimed_at into the claimed file
StampsClaim(a) == agent_type(a) = "SearchAgent"
\* process_task rewrites the claimed file with a task heartbeat
UpdatesTaskHeartbeat(a) == agent_type(a) = "SearchAgent"
\* fail_task has the retry branch
RetriesOnFail(a) == agent_type(a) = "SearchAgent"
\* LLM calls go through _run_llm_query, which swallows every exception
UsesRunner(a) == agent_type(a) \in {"SearchAgent", "DatabaseAgent", "TaskBreakdownAgent"}
\* monitor_workspace passes claim_task's return value (the active path) on
PassesClaimedFile(a) == agent_type(a) \in {"SearchAgent", "DatabaseAgent", "TaskBreakdownAgent"}
\* process_task is TaskBreakdownAgent's own: it ends with create_subtasks
BreaksDown(a) == agent_type(a) = "TaskBreakdownAgent"

(***************************************************************************)
(* Tasks a producer may write: T1, T2, T3, and P, a task for the           *)
(* TaskBreakdownAgent.  subtask_pool holds the ids uuid4 hands to          *)
(* create_subtasks, in the order it hands them out.                        *)
(***************************************************************************)
subtask_pool == <<"S1", "S2", "S3">>

TaskIds == {"T1", "T2", "T3", "P"} \cup {subtask_pool[k] : k \in DOMAIN subtask_pool}

Dependencies(t) == IF t = "T2" THEN {"T1"} ELSE {}
Requirements(t) ==
  CASE t = "T3" -> {"api_testing"}
    [] t = "P" -> {"task_decomposition"}
    [] OTHER -> {}
OriginalGoal(t) ==
  CASE t = "T1" -> "goal"
    [] t = "P" -> "goal of P"
    [] OTHER -> None
Description(t) == <<"description", t>>

NewTask(t) ==
  [id |-> t, description |-> Description(t), requirements |-> Requirements(t),
   dependencies |-> Dependencies(t), original_goal |-> OriginalGoal(t),
   retry_count |-> 0, max_retries |-> MaxRetries,
   claimed_by |-> None, claimed_at |-> FALSE,
   result |-> None, completed_at |-> FALSE,
   error |-> None, failed_at |-> FALSE, status |-> None,
   heartbeat_count |-> 0]

(***************************************************************************)
(* File names are sequences of name parts: <<"T1">> is T1.json,            *)
(* <<a, "T1">> is <a>_T1.json and <<"retry", a, "T1">> retry_<a>_T1.json.  *)
(***************************************************************************)
PendingName(t) == <<t>>
\* a claimed file named after the agent alone, <agent-id>.json
ClaimedName_agent_only(a, name) == <<a>>

ClaimedName(a, name) == <<a>> \o name
\* a retry saved under the name of the file it retries
RetryName_same(name) == name

RetryName(name) == <<"retry">> \o name

Path(d, name) == [dir |-> d, name |-> name]
NoPath == Path(None, <<>>)
NoName == <<>>
\* what an agent's `task` holds while it has loaded none
NoTask ==
  [id |-> None, description |-> <<>>, requirements |-> {},
   dependencies |-> {}, original_goal |-> None,
   retry_count |-> 0, max_retries |-> 0,
   claimed_by |-> None, claimed_at |-> FALSE,
   result |-> None, completed_at |-> FALSE,
   error |-> None, failed_at |-> FALSE, status |-> None,
   heartbeat_count |-> 0]
\* agents/<agent-id>.json before the agent's first heartbeat
NoHeartbeat ==
  [agent_id |-> None, agent_type |-> None, capabilities |-> {},
   active_tasks |-> 0, status |-> None]
EmptyDir == [n \in {} |-> NoTask]

Put(dir, name, rec) == [n \in DOMAIN dir \cup {name} |-> IF n = name THEN rec ELSE dir[n]]
Del(dir, name) == [n \in DOMAIN dir \ {name} |-> dir[n]]

VARIABLES
  pending, active, completed, failed,  \* tasks/<stage>/ : file name -> record
  context,                             \* context/ : task id -> snapshot
  agents,                              \* agents/ : agent id -> heartbeat record
  pc,                                  \* where each agent's loop stands
  pending_tasks,                       \* monitor_workspace: files of the scan not yet visited
  task_file,                           \* monitor_workspace: the pending file being considered
  task,                                \* the record the agent last loaded
  claimed,                             \* process_task's task_file argument
  result,                              \* process_task: result, or the error message
  active_tasks,                        \* self.active_tasks
  produced,                            \* history: task ids written by a producer
  attempts,                            \* history: executor invocations per task id
  winners,                             \* history: <<agent, pending file>> of every claim_task that succeeded
  running,                             \* the agent processes that were started
  workload,                            \* the task ids the producer is run for
  steps,                               \* create_subtasks: the steps of the parsed breakdown
  subtask_ids                          \* create_subtasks: the ids of the subtasks created so far

vars == <<pending, active, completed, failed, context, agents, pc, pending_tasks,
          task_file, task, claimed, result, active_tasks, produced, attempts, winners,
          running, workload, steps, subtask_ids>>
\* what is started and what is asked for never changes
deployment == <<running, workload>>

store == <<pending, active, completed, failed>>
locals == <<pending_tasks, task_file, task, claimed, result>>
\* the locals of TaskBreakdownAgent.create_subtasks
subtask_locals == <<steps, subtask_ids>>

Stage(d) ==
  CASE d = "pending" -> pending
    [] d = "active" -> active
    [] d = "completed" -> completed
    [] d = "failed" -> failed

Exists(p) == p.name \in DOMAIN Stage(p.dir)
load_task(p) == Stage(p.dir)[p.name]

Deploy(processes, ids) ==
  /\ running = processes
  /\ workload = ids
  /\ pending = EmptyDir
  /\ active = EmptyDir
  /\ completed = EmptyDir
  /\ failed = EmptyDir
  /\ context = [t \in {} |-> NoTask]
  /\ agents = [a \in Agents |-> NoHeartbeat]
  /\ pc = [a \in Agents |-> "poll"]
  /\ pending_tasks = [a \in Agents |-> {}]
  /\ task_file = [a \in Agents |-> NoName]
  /\ task = [a \in Agents |-> NoTask]
  /\ claimed = [a \in Agents |-> NoPath]
  /\ result = [a \in Agents |-> None]
  /\ active_tasks = [a \in Agents |-> {}]
  /\ produced = {}
  /\ attempts = [t \in TaskIds |-> 0]
  /\ winners = {}
  /\ steps = <<>>
  /\ subtask_ids = <<>>

\* the three worker classes are started; the producer writes T1 and T2, which waits for T1
Init == Deploy({"SearchAgent_1", "DatabaseAgent_1", "APIAgent_1"}, {"T1", "T2"})

(***************************************************************************)
(* Producer: create_test_task.py writes a new record into pending.         *)
(***************************************************************************)
produce(t) ==
  /\ t \notin produced
  /\ pending' = Put(pending, PendingName(t), NewTask(t))
  /\ produced' = produced \cup {t}
  /\ UNCHANGED <<active, completed, failed, context, agents, pc, locals, active_tasks, attempts, winners>>
  /\ UNCHANGED <<deployment, subtask_locals>>

(***************************************************************************)
(* monitor_workspace, top of the while loop: update_heartbeat, then        *)
(* scan_pending_tasks.  The listing order of os.listdir is arbitrary, so   *)
(* the scan is kept as the set of files the for loop has yet to visit.     *)
(***************************************************************************)
update_heartbeat(a) ==
  [agent_id |-> a, agent_type |-> agent_type(a), capabilities |-> capabilities(a),
   active_tasks |-> Cardinality(active_tasks[a]), status |-> "running"]

\* a scan that returns only the files no agent's last scan returned
scan_pending_tasks_unseen == DOMAIN pending \ UNION {pending_tasks[a] : a \in Agents}

scan_pending_tasks == DOMAIN pending

\* a poll that first clears the agent's own files out of active
monitor_workspace_sweeping(a) ==
  /\ pc[a] = "poll"
  /\ agents' = [agents EXCEPT ![a] = update_heartbeat(a)]
  /\ active' = [n \in {m \in DOMAIN active : Head(m) # a} |-> active[n]]
  /\ pending_tasks' = [pending_tasks EXCEPT ![a] = scan_pending_tasks]
  /\ pc' = [pc EXCEPT ![a] = "for"]
  /\ UNCHANGED <<pending, completed, failed, context, task_file, task, claimed, result,
                 active_tasks, produced, attempts, winners>>
  /\ UNCHANGED <<deployment, subtask_locals>>

monitor_workspace(a) ==
  /\ pc[a] = "poll"
  /\ agents' = [agents EXCEPT ![a] = update_heartbeat(a)]
  /\ pending_tasks' = [pending_tasks EXCEPT ![a] = scan_pending_tasks]
  /\ pc' = [pc EXCEPT ![a] = "for"]
  /\ UNCHANGED <<store, context, task_file, task, claimed, result, active_tasks,
                 produced, attempts, winners>>
  /\ UNCHANGED <<deployment, subtask_locals>>

(***************************************************************************)
(* for task_file in pending_tasks: task = self.load_task(task_file).       *)
(* A file another agent renamed away since the scan makes load_task raise; *)
(* the exception leaves the for loop and is caught by the loop's handler,  *)
(* which sleeps and starts the next cycle.                                 *)
(***************************************************************************)
\* a load failure that leaves monitor_workspace instead of reaching its handler
for_next_uncaught(a) ==
  /\ pc[a] = "for"
  /\ \E f \in pending_tasks[a] :
       IF f \in DOMAIN pending
       THEN /\ pending_tasks' = [pending_tasks EXCEPT ![a] = @ \ {f}]
            /\ task_file' = [task_file EXCEPT ![a] = f]
            /\ task' = [task EXCEPT ![a] = pending[f]]
            /\ pc' = [pc EXCEPT ![a] = "deps"]
       ELSE /\ pending_tasks' = [pending_tasks EXCEPT ![a] = {}]
            /\ task_file' = [task_file EXCEPT ![a] = NoName]
            /\ task' = [task EXCEPT ![a] = NoTask]
            /\ pc' = [pc EXCEPT ![a] = "exited"]
  /\ UNCHANGED <<store, context, agents, claimed, result, active_tasks, produced, attempts, winners>>
  /\ UNCHANGED <<deployment, subtask_locals>>

for_next(a) ==
  /\ pc[a] = "for"
  /\ \E f \in pending_tasks[a] :
       IF f \in DOMAIN pending
       THEN /\ pending_tasks' = [pending_tasks EXCEPT ![a] = @ \ {f}]
            /\ task_file' = [task_file EXCEPT ![a] = f]
            /\ task' = [task EXCEPT ![a] = pending[f]]
            /\ pc' = [pc EXCEPT ![a] = "deps"]
       ELSE /\ pending_tasks' = [pending_tasks EXCEPT ![a] = {}]
            /\ task_file' = [task_file EXCEPT ![a] = NoName]
            /\ task' = [task EXCEPT ![a] = NoTask]
            /\ pc' = [pc EXCEPT ![a] = "poll"]
  /\ UNCHANGED <<store, context, agents, claimed, result, active_tasks, produced, attempts, winners>>
  /\ UNCHANGED <<deployment, subtask_locals>>

\* the for loop is exhausted: asyncio.sleep, then the next cycle
for_done(a) ==
  /\ pc[a] = "for"
  /\ pending_tasks[a] = {}
  /\ task_file' = [task_file EXCEPT ![a] = NoName]
  /\ task' = [task EXCEPT ![a] = NoTask]
  /\ pc' = [pc EXCEPT ![a] = "poll"]
  /\ UNCHANGED <<store, context, agents, pending_tasks, claimed, result, active_tasks,
                 produced, attempts, winners>>
  /\ UNCHANGED <<deployment, subtask_locals>>

(***************************************************************************)
(* dependencies_satisfied: every dependency id is the id stored in some    *)
(* record of tasks/completed.                                              *)
(***************************************************************************)
\* a dependency check that is content with a dependency that exists, in whatever stage
dependencies_satisfied_exists(t) ==
  LET existing_tasks == UNION {{Stage(d)[n].id : n \in DOMAIN Stage(d)} :
                                 d \in {"pending", "active", "completed", "failed"}}
  IN  IF t.dependencies = {} THEN TRUE
      ELSE \A dep_id \in t.dependencies : dep_id \in existing_tasks

\* a dependency check that matches on the names of the completed files,
\* <agent-id>_<dep_id>.json, instead of the id inside them
dependencies_satisfied_by_filename(t) ==
  LET completed_tasks == {dep_id \in TaskIds :
                            \E a \in Agents : ClaimedName(a, PendingName(dep_id)) \in DOMAIN completed}
  IN  IF t.dependencies = {} THEN TRUE
      ELSE \A dep_id \in t.dependencies : dep_id \in completed_tasks

\* a dependency check that also counts the records still in active
dependencies_satisfied_active(t) ==
  LET completed_tasks == {completed[n].id : n \in DOMAIN completed}
                           \cup {active[n].id : n \in DOMAIN active}
  IN  IF t.dependencies = {} THEN TRUE
      ELSE \A dep_id \in t.dependencies : dep_id \in completed_tasks

dependencies_satisfied(t) ==
  LET completed_tasks == {completed[n].id : n \in DOMAIN completed}
  IN  IF t.dependencies = {} THEN TRUE
      ELSE \A dep_id \in t.dependencies : dep_id \in completed_tasks

check_dependencies(a) ==
  /\ pc[a] = "deps"
  /\ pc' = [pc EXCEPT ![a] = IF dependencies_satisfied(task[a]) THEN "should_handle" ELSE "for"]
  /\ UNCHANGED <<store, context, agents, locals, active_tasks, produced, attempts, winners>>
  /\ UNCHANGED <<deployment, subtask_locals>>

(***************************************************************************)
(* should_handle: the cap, then the three oracles.  proceed, capable and   *)
(* score are what the metacognition and evaluator LLMs answered; an oracle *)
(* is consulted only when the stages before it let the task through.  The  *)
(* cap is decided before the first await (should_handle_enter); the agent  *)
(* then waits for the oracles (admission).                                 *)
(***************************************************************************)
\* a cap that is never reached
at_capacity_never(a) == FALSE

at_capacity(a) == Cardinality(active_tasks[a]) >= max_concurrent_tasks(a)

\* a capability check that asks the oracle without looking at the requirements
can_handle_oracle_only(a, t, capable) == capable

can_handle(a, t, capable) ==
  IF t.requirements # {} /\ t.requirements \cap capabilities(a) = {} THEN FALSE
  ELSE capable

\* an admission that takes any fitness score
should_handle_any_score(a, t, proceed, capable, score) ==
  IF at_capacity(a) THEN FALSE
  ELSE IF ~proceed THEN FALSE
  ELSE IF ~can_handle(a, t, capable) THEN FALSE
  ELSE score >= MinScore

\* an admission that steps back while the registry shows another agent idle
should_handle_registry(a, t, proceed, capable, score) ==
  IF at_capacity(a) THEN FALSE
  ELSE IF \E o \in Agents \ {a} : agents[o].status = "running" /\ agents[o].active_tasks = 0
       THEN FALSE
  ELSE IF ~proceed THEN FALSE
  ELSE IF ~can_handle(a, t, capable) THEN FALSE
  ELSE score >= get_threshold(a)

should_handle(a, t, proceed, capable, score) ==
  IF at_capacity(a) THEN FALSE
  ELSE IF ~proceed THEN FALSE
  ELSE IF ~can_handle(a, t, capable) THEN FALSE
  ELSE score >= get_threshold(a)

should_handle_enter(a) ==
  /\ pc[a] = "should_handle"
  /\ pc' = [pc EXCEPT ![a] = IF at_capacity(a) THEN "for" ELSE "oracles"]
  /\ UNCHANGED <<store, context, agents, locals, active_tasks, produced, attempts, winners>>
  /\ UNCHANGED <<deployment, subtask_locals>>

admission(a) ==
  /\ pc[a] = "oracles"
  /\ \E proceed \in BOOLEAN :
       \E capable \in (IF proceed THEN BOOLEAN ELSE {FALSE}) :
         \E score \in (IF proceed /\ can_handle(a, task[a], capable)
                        THEN MinScore..MaxScore ELSE {MinScore}) :
           pc' = [pc EXCEPT ![a] = IF should_handle(a, task[a], proceed, capable, score)
                                    THEN "claim" ELSE "for"]
  /\ UNCHANGED <<store, context, agents, locals, active_tasks, produced, attempts, winners>>
  /\ UNCHANGED <<deployment, subtask_locals>>

(***************************************************************************)
(* claim_task: os.rename(pending/<name>, active/<agent>_<name>), then      *)
(* active_tasks.append.  The argument monitor_workspace hands on to        *)
(* process_task is claim_task's return value, or (APIAgent, TerminalAgent) *)
(* the pending path it called claim_task with.  A filesystem call inside   *)
(* claim_task either succeeds or raises OSError; claim_task catches it and *)
(* reports failure (None or False).                                        *)
(***************************************************************************)
IOOutcomes == {"ok", "OSError"}

ProcessArgument(a, name) ==
  IF PassesClaimedFile(a) THEN Path("active", ClaimedName(a, name))
  ELSE Path("pending", name)

\* a lost race that is raised into the loop's handler instead of being reported
claim_task_raises(a) ==
  /\ pc[a] = "claim"
  /\ \E io \in IOOutcomes :
     LET name == task_file[a]
         claimed_file == ClaimedName(a, name)
     IN  IF name \in DOMAIN pending /\ io = "ok"
         THEN /\ pending' = Del(pending, name)
              /\ active' = Put(active, claimed_file, pending[name])
              /\ active_tasks' = [active_tasks EXCEPT ![a] = @ \cup {Path("active", claimed_file)}]
              /\ claimed' = [claimed EXCEPT ![a] = ProcessArgument(a, name)]
              /\ winners' = winners \cup {<<a, name>>}
              /\ pc' = [pc EXCEPT ![a] = IF StampsClaim(a) THEN "stamp" ELSE "process"]
              /\ UNCHANGED <<pending_tasks, task_file, task>>
         ELSE /\ pc' = [pc EXCEPT ![a] = "poll"]
              /\ pending_tasks' = [pending_tasks EXCEPT ![a] = {}]
              /\ task_file' = [task_file EXCEPT ![a] = NoName]
              /\ task' = [task EXCEPT ![a] = NoTask]
              /\ UNCHANGED <<pending, active, active_tasks, claimed, winners>>
  /\ UNCHANGED <<completed, failed, context, agents, result, produced, attempts>>
  /\ UNCHANGED <<deployment, subtask_locals>>

\* a claim that copies the file into active and leaves the pending one
claim_task_copy(a) ==
  /\ pc[a] = "claim"
  /\ LET name == task_file[a]
         claimed_file == ClaimedName(a, name)
     IN  IF name \in DOMAIN pending
         THEN /\ pending' = pending
              /\ active' = Put(active, claimed_file, pending[name])
              /\ active_tasks' = [active_tasks EXCEPT ![a] = @ \cup {Path("active", claimed_file)}]
              /\ claimed' = [claimed EXCEPT ![a] = ProcessArgument(a, name)]
              /\ winners' = winners \cup {<<a, name>>}
              /\ pc' = [pc EXCEPT ![a] = IF StampsClaim(a) THEN "stamp" ELSE "process"]
         ELSE /\ pc' = [pc EXCEPT ![a] = "for"]
              /\ UNCHANGED <<pending, active, active_tasks, claimed, winners>>
  /\ UNCHANGED <<completed, failed, context, agents, pending_tasks, task_file, task,
                 result, produced, attempts>>
  /\ UNCHANGED <<deployment, subtask_locals>>

claim_task(a) ==
  /\ pc[a] = "claim"
  /\ \E io \in IOOutcomes :
     LET name == task_file[a]
         claimed_file == ClaimedName(a, name)
     IN  IF name \in DOMAIN pending /\ io = "ok"
         THEN /\ pending' = Del(pending, name)
              /\ active' = Put(active, claimed_file, pending[name])
              /\ active_tasks' = [active_tasks EXCEPT ![a] = @ \cup {Path("active", claimed_file)}]
              /\ claimed' = [claimed EXCEPT ![a] = ProcessArgument(a, name)]
              /\ winners' = winners \cup {<<a, name>>}
              /\ pc' = [pc EXCEPT ![a] = IF StampsClaim(a) THEN "stamp" ELSE "process"]
         ELSE \* OSError (another agent claimed it first, or the rename failed):
              \* the for loop goes on
              /\ pc' = [pc EXCEPT ![a] = "for"]
              /\ UNCHANGED <<pending, active, active_tasks, claimed, winners>>
  /\ UNCHANGED <<completed, failed, context, agents, pending_tasks, task_file, task,
                 result, produced, attempts>>
  /\ UNCHANGED <<deployment, subtask_locals>>

\* claim_task, after the rename: load, set claimed_by and claimed_at, save
ClaimInfo(a, t) == [t EXCEPT !.claimed_by = a, !.claimed_at = TRUE]

claim_stamp(a) ==
  /\ pc[a] = "stamp"
  /\ \E io \in IOOutcomes :
       IF io = "ok"
       THEN /\ active' = [active EXCEPT ![claimed[a].name] = ClaimInfo(a, @)]
            /\ pc' = [pc EXCEPT ![a] = "process"]
            /\ claimed' = claimed
       ELSE \* open() of the claimed file raised: claim_task returns None
            /\ active' = active
            /\ pc' = [pc EXCEPT ![a] = "for"]
            /\ claimed' = [claimed EXCEPT ![a] = NoPath]
  /\ UNCHANGED <<pending, completed, failed, context, agents, pending_tasks, task_file,
                 task, result, active_tasks, produced, attempts, winners>>
  /\ UNCHANGED <<deployment, subtask_locals>>

(***************************************************************************)
(* process_task returns: the finally clause removes its argument from      *)
(* active_tasks, monitor_workspace breaks out of the for loop and sleeps.  *)
(***************************************************************************)
Return(a) ==
  /\ active_tasks' = [active_tasks EXCEPT ![a] = @ \ {claimed[a]}]
  /\ pc' = [pc EXCEPT ![a] = "poll"]
  /\ pending_tasks' = [pending_tasks EXCEPT ![a] = {}]
  /\ task_file' = [task_file EXCEPT ![a] = NoName]
  /\ task' = [task EXCEPT ![a] = NoTask]
  /\ claimed' = [claimed EXCEPT ![a] = NoPath]
  /\ result' = [result EXCEPT ![a] = None]

(***************************************************************************)
(* process_task, first lines: load_task(task_file) and, in SearchAgent and *)
(* FileAgent, update_task_heartbeat.  When the file is not there load_task *)
(* raises, the handler calls fail_task, whose own load_task raises and is  *)
(* swallowed, and process_task returns.                                    *)
(***************************************************************************)
update_task_heartbeat(t) == [t EXCEPT !.heartbeat_count = @ + 1]

process_task(a) ==
  /\ pc[a] = "process"
  /\ IF Exists(claimed[a])
     THEN /\ task' = [task EXCEPT ![a] = load_task(claimed[a])]
          /\ IF UpdatesTaskHeartbeat(a)
             THEN active' = [active EXCEPT ![claimed[a].name] = update_task_heartbeat(@)]
             ELSE active' = active
          /\ pc' = [pc EXCEPT ![a] = IF BreaksDown(a) THEN "breakdown" ELSE "execute"]
          /\ UNCHANGED <<pending_tasks, task_file, claimed, result, active_tasks>>
     ELSE /\ Return(a)
          /\ active' = active
  /\ UNCHANGED <<pending, completed, failed, context, agents, produced, attempts, winners>>
  /\ UNCHANGED <<deployment, subtask_locals>>

(***************************************************************************)
(* The executor call and validates_goal_progress.  outcome says whether    *)
(* the executor LLM call returned or raised, verdict what the validation   *)
(* oracle did.  _run_llm_query turns an exception into an "Error: ..."     *)
(* string; executor.process (APIAgent, TerminalAgent) lets it propagate.   *)
(***************************************************************************)
ErrorResult == "Error: executor raised"
run_llm_query(outcome) == IF outcome = "raises" THEN ErrorResult ELSE "result"

validates_goal_progress(a, t, verdict) ==
  IF t.original_goal = None THEN TRUE
  ELSE IF UsesRunner(a) THEN verdict = "YES"
  ELSE verdict \in {"YES", "raises"}

execute(a) ==
  /\ pc[a] = "execute"
  /\ attempts' = [attempts EXCEPT ![task[a].id] = @ + 1]
  /\ \E outcome \in {"returns", "raises"}, verdict \in {"YES", "NO", "raises"} :
       IF ~UsesRunner(a) /\ outcome = "raises"
       THEN /\ result' = [result EXCEPT ![a] = "Processing error"]
            /\ pc' = [pc EXCEPT ![a] = "fail"]
       ELSE IF validates_goal_progress(a, task[a], verdict)
       THEN /\ result' = [result EXCEPT ![a] = run_llm_query(outcome)]
            /\ pc' = [pc EXCEPT ![a] = "complete"]
       ELSE /\ result' = [result EXCEPT ![a] = "Result doesn't advance original goal"]
            /\ pc' = [pc EXCEPT ![a] = "fail"]
  /\ UNCHANGED <<store, context, agents, pending_tasks, task_file, task, claimed,
                 active_tasks, produced, winners>>
  /\ UNCHANGED <<deployment, subtask_locals>>

(***************************************************************************)
(* TaskBreakdownAgent.process_task: the executor LLM is asked for a        *)
(* breakdown and, when validation passes, create_subtasks parses it and    *)
(* writes one pending file per step before complete_task runs.  A step     *)
(* names the steps it depends on as text; such a name is kept here as its  *)
(* parts between underscores: <<"step", "1">> is "step_1" and              *)
(* <<"step", "2", "id">> is "step_2_id", the form the prompt shows.        *)
(***************************************************************************)
\* the most steps a breakdown has
MaxSteps == 2

Numerals == <<"1", "2", "3", "4">>
str(k) == Numerals[k]
\* int(s) raises ValueError unless s is a numeral
IsNumeral(s) == \E k \in DOMAIN Numerals : Numerals[k] = s
int(s) == CHOOSE k \in DOMAIN Numerals : Numerals[k] = s

\* the dependency names the LLM may write into a step
DepNames ==
  {<<"step", str(k)>> : k \in 1..MaxSteps} \cup {<<"step", str(k), "id">> : k \in 1..MaxSteps}
    \cup {<<"step", "x">>, <<"task", "1">>}

StepDependencies == {{}} \cup {{d} : d \in DepNames}

Step ==
  [description : {<<"description", "step">>}, requirements : {{"database_operations"}},
   dependencies : StepDependencies]

\* breakdown_data['steps']; empty when the result holds no JSON, says
\* breakdown_needed false or has no steps
Breakdowns == UNION {[1..n -> Step] : n \in 0..MaxSteps}

\* str(uuid.uuid4()): an id no task has yet
uuid4 == subtask_pool[Cardinality({k \in DOMAIN subtask_pool : subtask_pool[k] \in produced}) + 1]

\* "Map step dependencies to actual subtask IDs": i is enumerate's index of
\* the step, ids is subtask_ids with the step's own id already appended
step_dependencies(deps, i, ids) ==
  {ids[int(dep[2])] :
     dep \in {d \in deps : /\ Len(d) >= 2
                           /\ d[1] = "step"
                           /\ d # <<"step", str(i + 1)>>
                           /\ IsNumeral(d[2])
                           /\ 0 <= int(d[2]) - 1
                           /\ int(d[2]) - 1 < Len(ids)}}

\* max_retries of every subtask
SubtaskMaxRetries == 3

\* a subtask that does not take over the parent's goal
Subtask_without_goal(original_task, step, subtask_id, deps) ==
  [id |-> subtask_id, description |-> step.description, requirements |-> step.requirements,
   dependencies |-> deps, original_goal |-> None,
   retry_count |-> 0, max_retries |-> SubtaskMaxRetries,
   claimed_by |-> None, claimed_at |-> FALSE,
   result |-> None, completed_at |-> FALSE,
   error |-> None, failed_at |-> FALSE, status |-> None,
   heartbeat_count |-> 0]

Subtask(original_task, step, subtask_id, deps) ==
  [id |-> subtask_id, description |-> step.description, requirements |-> step.requirements,
   dependencies |-> deps,
   original_goal |-> IF original_task.original_goal # None THEN original_task.original_goal
                     ELSE original_task.description,
   retry_count |-> 0, max_retries |-> SubtaskMaxRetries,
   claimed_by |-> None, claimed_at |-> FALSE,
   result |-> None, completed_at |-> FALSE,
   error |-> None, failed_at |-> FALSE, status |-> None,
   heartbeat_count |-> 0]

breakdown(a) ==
  /\ pc[a] = "breakdown"
  /\ attempts' = [attempts EXCEPT ![task[a].id] = @ + 1]
  /\ \E outcome \in {"returns", "raises"}, verdict \in {"YES", "NO", "raises"} :
       \E parsed \in (IF outcome = "returns" THEN Breakdowns ELSE {<<>>}) :
         IF validates_goal_progress(a, task[a], verdict)
         THEN /\ result' = [result EXCEPT ![a] = run_llm_query(outcome)]
              /\ steps' = parsed
              /\ subtask_ids' = <<>>
              /\ pc' = [pc EXCEPT ![a] = "create_subtasks"]
         ELSE /\ result' = [result EXCEPT ![a] = "Breakdown doesn't advance original goal"]
              /\ pc' = [pc EXCEPT ![a] = "fail"]
              /\ UNCHANGED subtask_locals
  /\ UNCHANGED <<store, context, agents, pending_tasks, task_file, task, claimed,
                 active_tasks, produced, winners>>
  /\ UNCHANGED deployment

\* one turn of create_subtasks' for loop: the next step's file is written
\* into pending; after the last step create_subtasks returns
create_subtasks(a) ==
  /\ pc[a] = "create_subtasks"
  /\ IF Len(subtask_ids) < Len(steps)
     THEN LET i == Len(subtask_ids)
              step == steps[i + 1]
              subtask_id == uuid4
              ids == Append(subtask_ids, subtask_id)
              subtask == Subtask(task[a], step, subtask_id,
                                 step_dependencies(step.dependencies, i, ids))
          IN  /\ subtask_ids' = ids
              /\ pending' = Put(pending, PendingName(subtask_id), subtask)
              /\ produced' = produced \cup {subtask_id}
              /\ UNCHANGED <<steps, pc>>
     ELSE /\ steps' = <<>>
          /\ subtask_ids' = <<>>
          /\ pc' = [pc EXCEPT ![a] = "complete"]
          /\ UNCHANGED <<pending, produced>>
  /\ UNCHANGED <<active, completed, failed, context, agents, locals, active_tasks,
                 attempts, winners>>
  /\ UNCHANGED deployment

(***************************************************************************)
(* complete_task: save the record under tasks/completed/<basename>, then   *)
(* os.remove the active file, then save_result_to_context.                 *)
(***************************************************************************)
\* a completion record without its completion time
CompletedRecord_undated(t, res) == [t EXCEPT !.result = res, !.status = "completed"]

CompletedRecord(t, res) ==
  [t EXCEPT !.result = res, !.completed_at = TRUE, !.status = "completed"]

complete_task(a) ==
  /\ pc[a] = "complete"
  /\ IF Exists(claimed[a])
     THEN LET t == CompletedRecord(load_task(claimed[a]), result[a])
          IN  /\ completed' = Put(completed, claimed[a].name, t)
              /\ task' = [task EXCEPT ![a] = t]
              /\ pc' = [pc EXCEPT ![a] = "complete_remove"]
              /\ UNCHANGED <<pending_tasks, task_file, claimed, result, active_tasks>>
     ELSE /\ Return(a)
          /\ completed' = completed
  /\ UNCHANGED <<pending, active, failed, context, agents, produced, attempts, winners>>
  /\ UNCHANGED <<deployment, subtask_locals>>

\* an os.remove handed the completed file instead of the active one
complete_remove_completed(a) ==
  /\ pc[a] = "complete_remove"
  /\ completed' = Del(completed, claimed[a].name)
  /\ pc' = [pc EXCEPT ![a] = "complete_context"]
  /\ UNCHANGED <<pending, active, failed, context, agents, locals, active_tasks,
                 produced, attempts, winners>>
  /\ UNCHANGED <<deployment, subtask_locals>>

complete_remove(a) ==
  /\ pc[a] = "complete_remove"
  /\ active' = Del(active, claimed[a].name)
  /\ pc' = [pc EXCEPT ![a] = "complete_context"]
  /\ UNCHANGED <<pending, completed, failed, context, agents, locals, active_tasks,
                 produced, attempts, winners>>
  /\ UNCHANGED <<deployment, subtask_locals>>

save_result_to_context(t, res) ==
  [task_id |-> t.id, description |-> t.description, result |-> res,
   original_goal |-> t.original_goal]

\* a snapshot write that empties the context directory first
complete_context_alone(a) ==
  /\ pc[a] = "complete_context"
  /\ context' = Put([t \in {} |-> NoTask], task[a].id, save_result_to_context(task[a], result[a]))
  /\ Return(a)
  /\ UNCHANGED <<store, agents, produced, attempts, winners>>
  /\ UNCHANGED <<deployment, subtask_locals>>

\* a complete_task that returns without writing the snapshot
complete_context_skipped(a) ==
  /\ pc[a] = "complete_context"
  /\ context' = context
  /\ Return(a)
  /\ UNCHANGED <<store, agents, produced, attempts, winners>>
  /\ UNCHANGED <<deployment, subtask_locals>>

complete_context(a) ==
  /\ pc[a] = "complete_context"
  /\ context' = Put(context, task[a].id, save_result_to_context(task[a], result[a]))
  /\ Return(a)
  /\ UNCHANGED <<store, agents, produced, attempts, winners>>
  /\ UNCHANGED <<deployment, subtask_locals>>

(***************************************************************************)
(* fail_task: SearchAgent and FileAgent count the failure and re-inject    *)
(* the record into pending as retry_<basename> while retries remain; every *)
(* other agent writes the record to tasks/failed at once.  Then os.remove. *)
(***************************************************************************)
\* a failure record whose counter goes down instead of up
FailedRecord_decrement(a, t, error_message) ==
  LET f == [t EXCEPT !.error = error_message, !.failed_at = TRUE, !.status = "failed"]
  IN  IF RetriesOnFail(a) THEN [f EXCEPT !.retry_count = @ - 1] ELSE f

FailedRecord(a, t, error_message) ==
  LET f == [t EXCEPT !.error = error_message, !.failed_at = TRUE, !.status = "failed"]
  IN  IF RetriesOnFail(a) THEN [f EXCEPT !.retry_count = @ + 1] ELSE f

ShouldRetry(a, t) == RetriesOnFail(a) /\ t.retry_count < t.max_retries

\* a fail_task that records every failure in failed, retried or not
fail_task_recorded(a) ==
  /\ pc[a] = "fail"
  /\ IF Exists(claimed[a])
     THEN LET t == FailedRecord(a, load_task(claimed[a]), result[a])
          IN  /\ IF ShouldRetry(a, t)
                 THEN /\ pending' = Put(pending, RetryName(claimed[a].name), t)
                      /\ failed' = Put(failed, claimed[a].name, t)
                 ELSE /\ failed' = Put(failed, claimed[a].name, t)
                      /\ pending' = pending
              /\ task' = [task EXCEPT ![a] = t]
              /\ pc' = [pc EXCEPT ![a] = "fail_remove"]
              /\ UNCHANGED <<pending_tasks, task_file, claimed, result, active_tasks>>
     ELSE /\ Return(a)
          /\ UNCHANGED <<pending, failed>>
  /\ UNCHANGED <<active, completed, context, agents, produced, attempts, winners>>
  /\ UNCHANGED <<deployment, subtask_locals>>

\* a fail_task whose retry branch does not write the retry file
fail_task_unsaved(a) ==
  /\ pc[a] = "fail"
  /\ IF Exists(claimed[a])
     THEN LET t == FailedRecord(a, load_task(claimed[a]), result[a])
          IN  /\ IF ShouldRetry(a, t)
                 THEN UNCHANGED <<pending, failed>>
                 ELSE /\ failed' = Put(failed, claimed[a].name, t)
                      /\ pending' = pending
              /\ task' = [task EXCEPT ![a] = t]
              /\ pc' = [pc EXCEPT ![a] = "fail_remove"]
              /\ UNCHANGED <<pending_tasks, task_file, claimed, result, active_tasks>>
     ELSE /\ Return(a)
          /\ UNCHANGED <<pending, failed>>
  /\ UNCHANGED <<active, completed, context, agents, produced, attempts, winners>>
  /\ UNCHANGED <<deployment, subtask_locals>>

fail_task(a) ==
  /\ pc[a] = "fail"
  /\ IF Exists(claimed[a])
     THEN LET t == FailedRecord(a, load_task(claimed[a]), result[a])
          IN  /\ IF ShouldRetry(a, t)
                 THEN /\ pending' = Put(pending, RetryName(claimed[a].name), t)
                      /\ failed' = failed
                 ELSE /\ failed' = Put(failed, claimed[a].name, t)
                      /\ pending' = pending
              /\ task' = [task EXCEPT ![a] = t]
              /\ pc' = [pc EXCEPT ![a] = "fail_remove"]
              /\ UNCHANGED <<pending_tasks, task_file, claimed, result, active_tasks>>
     ELSE /\ Return(a)
          /\ UNCHANGED <<pending, failed>>
  /\ UNCHANGED <<active, completed, context, agents, produced, attempts, winners>>
  /\ UNCHANGED <<deployment, subtask_locals>>

\* a removal that clears every active file of the task id, whoever claimed it
fail_remove_by_id(a) ==
  /\ pc[a] = "fail_remove"
  /\ active' = [n \in {m \in DOMAIN active : active[m].id # task[a].id} |-> active[n]]
  /\ Return(a)
  /\ UNCHANGED <<pending, completed, failed, context, agents, produced, attempts, winners>>
  /\ UNCHANGED <<deployment, subtask_locals>>

fail_remove(a) ==
  /\ pc[a] = "fail_remove"
  /\ active' = Del(active, claimed[a].name)
  /\ Return(a)
  /\ UNCHANGED <<pending, completed, failed, context, agents, produced, attempts, winners>>
  /\ UNCHANGED <<deployment, subtask_locals>>

Next ==
  \/ \E t \in workload : produce(t)
  \/ \E a \in running : monitor_workspace(a)
  \/ \E a \in running : for_next(a)
  \/ \E a \in running : for_done(a)
  \/ \E a \in running : check_dependencies(a)
  \/ \E a \in running : should_handle_enter(a)
  \/ \E a \in running : admission(a)
  \/ \E a \in running : claim_task(a)
  \/ \E a \in running : claim_stamp(a)
  \/ \E a \in running : process_task(a)
  \/ \E a \in running : execute(a)
  \/ \E a \in running : complete_task(a)
  \/ \E a \in running : complete_remove(a)
  \/ \E a \in running : complete_context(a)
  \/ \E a \in running : fail_task(a)
  \/ \E a \in running : fail_remove(a)

Spec == Init /\ [][Next]_vars

(***************************************************************************)
(* A second deployment: SearchAgent and APIAgent, and a producer run for   *)
(* all three tasks; T1 and T3 do not wait for each other.                  *)
(***************************************************************************)
CapInit == Deploy({"SearchAgent_1", "APIAgent_1"}, {"T1", "T2", "T3"})

CapSpec == CapInit /\ [][Next]_vars

(***************************************************************************)
(* A third deployment: a TaskBreakdownAgent, which takes P and writes its  *)
(* subtasks, next to a DatabaseAgent, which polls all the while and takes  *)
(* the subtasks.  Neither class stamps its claims.                         *)
(***************************************************************************)
BreakdownInit == Deploy({"TaskBreakdownAgent_1", "DatabaseAgent_1"}, {"P"})

BreakdownNext ==
  \/ \E t \in workload : produce(t)
  \/ \E a \in running : monitor_workspace(a)
  \/ \E a \in running : for_next(a)
  \/ \E a \in running : for_done(a)
  \/ \E a \in running : check_dependencies(a)
  \/ \E a \in running : should_handle_enter(a)
  \/ \E a \in running : admission(a)
  \/ \E a \in running : claim_task(a)
  \/ \E a \in running : process_task(a)
  \/ \E a \in running : execute(a)
  \/ \E a \in running : breakdown(a)
  \/ \E a \in running : create_subtasks(a)
  \/ \E a \in running : complete_task(a)
  \/ \E a \in running : complete_remove(a)
  \/ \E a \in running : complete_context(a)
  \/ \E a \in running : fail_task(a)
  \/ \E a \in running : fail_remove(a)

BreakdownSpec == BreakdownInit /\ [][BreakdownNext]_vars

(***************************************************************************)
(* The same system under the scheduling the liveness claim assumes: every  *)
(* agent process keeps running (weak fairness of each agent's loop), file  *)
(* operations succeed, and the oracles of the agents in Eager never turn a *)
(* task down.                                                              *)
(***************************************************************************)
agent_step(a) ==
  \/ monitor_workspace(a) \/ for_next(a) \/ for_done(a) \/ check_dependencies(a)
  \/ should_handle_enter(a) \/ admission(a) \/ claim_task(a) \/ claim_stamp(a) \/ process_task(a) \/ execute(a)
  \/ breakdown(a) \/ create_subtasks(a)
  \/ complete_task(a) \/ complete_remove(a) \/ complete_context(a)
  \/ fail_task(a) \/ fail_remove(a)

Eager == {"SearchAgent_1"}

\* the oracles made should_handle turn down a task it would otherwise take
OracleRejects(a) ==
  /\ pc[a] = "oracles"
  /\ pc'[a] = "for"
  /\ should_handle(a, task[a], TRUE, TRUE, MaxScore)

\* a filesystem call of claim_task raised although the file was there
IOFault(a) ==
  \/ pc[a] = "claim" /\ task_file[a] \in DOMAIN pending /\ pc'[a] = "for"
  \/ pc[a] = "stamp" /\ pc'[a] = "for"

FairNext ==
  /\ Next
  /\ \A a \in Eager : ~OracleRejects(a)
  /\ \A a \in Agents : ~IOFault(a)

FairSpec == Init /\ [][FairNext]_vars /\ \A a \in Agents : WF_vars(a \in running /\ agent_step(a))

(***************************************************************************)
(* What the properties below speak of.                                     *)
(***************************************************************************)
Stages == {"pending", "active", "completed", "failed"}
\* the stage directories holding a record of task id t
StagesOf(t) == {d \in Stages : \E n \in DOMAIN Stage(d) : Stage(d)[n].id = t}
\* the records of task id t, over all four directories
RecordsOf(t) == UNION {{Stage(d)[n] : n \in {m \in DOMAIN Stage(d) : Stage(d)[m].id = t}} : d \in Stages}
\* the file names a pending file may be claimed from
PendingNames == DOMAIN pending \cup {w[2] : w \in winners}
\* the agents holding an active file claimed from pending file `name`
ClaimantsOf(name) == {a \in Agents : ClaimedName(a, name) \in DOMAIN active}
\* the agent's rename has succeeded and it has not yet begun to process the task
HoldsClaim(a) == pc[a] \in {"stamp", "process"}

(***************************************************************************)
(* C1: however the claim_task calls of several agents on one pending file  *)
(* interleave, at most one of them succeeds; while the winner has not      *)
(* begun to resolve the task, the file is gone from pending and active     *)
(* holds exactly one file claimed from it, <winner>_<name>.                *)
(***************************************************************************)
C1_ClaimMutualExclusion ==
  /\ \A w1 \in winners, w2 \in winners : w1[2] = w2[2] => w1[1] = w2[1]
  /\ \A name \in PendingNames : Cardinality(ClaimantsOf(name)) <= 1
  /\ \A a \in Agents :
       (HoldsClaim(a) /\ <<a, task_file[a]>> \in winners) =>
          /\ task_file[a] \notin DOMAIN pending
          /\ ClaimantsOf(task_file[a]) = {a}

\* two agents race for one file: one has won, the other is about to call claim_task
C1_Witness ==
  \E a \in Agents, b \in Agents :
    /\ a # b
    /\ HoldsClaim(a)
    /\ <<a, task_file[a]>> \in winners
    /\ pc[b] = "claim"
    /\ task_file[b] = task_file[a]

(***************************************************************************)
(* C2: no task has a record in more than one of pending, active, completed *)
(* and failed at any instant.                                              *)
(***************************************************************************)
C2_OneStagePerTask == \A t \in TaskIds : Cardinality(StagesOf(t)) <= 1

(***************************************************************************)
(* C3: a task a producer wrote is, in every later state, in at least one   *)
(* of the four stage directories.                                          *)
(***************************************************************************)
C3_NoTaskVanishes == \A t \in produced : StagesOf(t) # {}

\* a task has been through claim, failure and retry and is still there
C3_Witness ==
  \E t \in produced : attempts[t] >= 2 /\ StagesOf(t) \cap {"completed", "failed"} # {}

(***************************************************************************)
(* C4: an agent reaches should_handle and claim_task for a task only with  *)
(* every dependency id stored in a completed record, and no record is in   *)
(* active while one of its dependencies is absent from completed.          *)
(***************************************************************************)
C4_DependenciesGateClaims ==
  /\ \A a \in Agents : pc[a] \in {"should_handle", "oracles", "claim"} => dependencies_satisfied(task[a])
  /\ \A n \in DOMAIN active : dependencies_satisfied(active[n])

\* a task with a dependency has been claimed
C4_Witness == \E n \in DOMAIN active : active[n].dependencies # {}

(***************************************************************************)
(* C5: a record is in failed only if its retry_count has reached its       *)
(* max_retries (the failure path of every agent type counts the failure    *)
(* and re-injects the task while retries remain).                          *)
(***************************************************************************)
C5_FailedOnlyWhenExhausted ==
  \A n \in DOMAIN failed : failed[n].retry_count >= failed[n].max_retries

(***************************************************************************)
(* C6: a task whose executor call raised is never written to completed.    *)
(***************************************************************************)
C6_RaisedNeverCompleted ==
  \A n \in DOMAIN completed : completed[n].result # ErrorResult

(***************************************************************************)
(* C7: once an agent is back from process_task (its loop is at the top     *)
(* again), no file it claimed is left in active.                           *)
(***************************************************************************)
C7_NothingLeftInActive ==
  \A a \in Agents : pc[a] = "poll" => \A n \in DOMAIN active : Head(n) # a

(***************************************************************************)
(* C8: a task that ends in failed was executed exactly max_retries times   *)
(* and rests there with retry_count = max_retries.                         *)
(***************************************************************************)
C8_FailsAfterMaxRetriesAttempts ==
  \A n \in DOMAIN failed :
    /\ failed[n].retry_count = failed[n].max_retries
    /\ attempts[failed[n].id] = failed[n].max_retries

(***************************************************************************)
(* C9: across claims, failures and retry re-injections the retry_count in  *)
(* a task's records never goes down: no step lowers the lowest or the      *)
(* highest retry_count stored for a task id.                               *)
(***************************************************************************)
RetryCounts(t) == {r.retry_count : r \in RecordsOf(t)}

C9_RetryCountMonotone ==
  [][store' # store =>
       \A t \in TaskIds :
         (RetryCounts(t) # {} /\ RetryCounts(t)' # {}) =>
            /\ \A new \in RetryCounts(t)' : \E old \in RetryCounts(t) : old <= new
            /\ \A old \in RetryCounts(t) : \E new \in RetryCounts(t)' : old <= new]_vars

\* a retry incarnation has been claimed again
C9_Witness == \E n \in DOMAIN active : active[n].retry_count >= 1

(***************************************************************************)
(* C10: with every agent's loop running and an agent that admits whatever  *)
(* it evaluates, a produced task whose dependencies are all in completed   *)
(* eventually has a record in completed or failed.                         *)
(***************************************************************************)
DependenciesCompleted(t) ==
  \A dep_id \in Dependencies(t) : \E n \in DOMAIN completed : completed[n].id = dep_id
Resolved(t) == StagesOf(t) \cap {"completed", "failed"} # {}

\* some agent of Eager passes the local requirements test of can_handle
Admissible(t) == \E a \in Eager : can_handle(a, NewTask(t), TRUE)

C10_ReadyTaskEventuallyResolved ==
  \A t \in {u \in TaskIds : Admissible(u)} :
    (t \in produced /\ DependenciesCompleted(t)) ~> Resolved(t)

(***************************************************************************)
(* C11: an agent never holds more than max_concurrent_tasks entries in     *)
(* active_tasks, and an agent that holds that many consults no oracle and  *)
(* goes on to no claim: should_handle turns the task down at its first     *)
(* test, whatever the oracles would have answered.                         *)
(***************************************************************************)
C11_ConcurrencyCap ==
  \A a \in Agents :
    /\ Cardinality(active_tasks[a]) <= max_concurrent_tasks(a)
    /\ pc[a] \in {"oracles", "claim"} =>
         Cardinality(active_tasks[a]) < max_concurrent_tasks(a)

\* an agent holding max_concurrent_tasks claims is in should_handle for one more task
C11_Witness ==
  \E a \in Agents :
    /\ pc[a] = "should_handle"
    /\ Cardinality(active_tasks[a]) = max_concurrent_tasks(a)
(***************************************************************************)
(* C12: for a claimed task without original_goal, validation passes, so    *)
(* process_task takes the completion path whatever the executor returned   *)
(* (the failure path only when the executor call itself raised), and when  *)
(* process_task returns the task's file is in completed and no longer in   *)
(* active.                                                                 *)
(***************************************************************************)
InProcessTask(a) ==
  pc[a] \in {"process", "execute", "breakdown", "create_subtasks", "complete",
             "complete_remove", "complete_context", "fail", "fail_remove"}

C12_GoallessTaskCompletes ==
  [][\A a \in Agents :
       task[a].original_goal = None =>
         /\ (pc[a] = "execute" /\ pc'[a] # "execute") =>
              (pc'[a] = "complete" \/ result'[a] = "Processing error")
         /\ (InProcessTask(a) /\ pc'[a] = "poll") =>
              /\ ClaimedName(a, task_file[a]) \in DOMAIN completed'
              /\ ClaimedName(a, task_file[a]) \notin DOMAIN active']_vars
(***************************************************************************)
(* C13: a file in completed or failed is never removed, moved or rewritten *)
(* by any step, and a file appears in pending only when the producer       *)
(* creates a task or when the retry branch of fail_task re-injects the     *)
(* active file of the agent running it.                                    *)
(***************************************************************************)
Kept(dir, dir2) == \A n \in DOMAIN dir : n \in DOMAIN dir2 /\ dir2[n] = dir[n]

RetryInjection(a, n) ==
  /\ pc[a] = "fail"
  /\ claimed[a].dir = "active"
  /\ claimed[a].name \in DOMAIN active
  /\ n = RetryName(claimed[a].name)

C13_TerminalStages ==
  [][store' # store =>
       /\ Kept(completed, completed')
       /\ Kept(failed, failed')
       /\ \A n \in DOMAIN pending' \ DOMAIN pending :
            \/ produced' # produced /\ n = PendingName(pending'[n].id)
            \/ \E a \in Agents : RetryInjection(a, n)]_vars

\* a second completion is being written while an earlier one rests in completed
C13_Witness ==
  /\ Cardinality(DOMAIN completed) >= 2
  /\ \E a \in Agents : pc[a] = "complete_remove"
(***************************************************************************)
(* C14: every record in active carries claimed_by equal to the agent id    *)
(* its file name starts with, and a claimed_at, at every instant it is     *)
(* visible there.                                                          *)
(***************************************************************************)
C14_ActiveRecordsStamped ==
  \A n \in DOMAIN active : active[n].claimed_by = Head(n) /\ active[n].claimed_at

(***************************************************************************)
(* C15: no record in pending has claimed_by or claimed_at, the records     *)
(* re-injected by a retry included.                                        *)
(***************************************************************************)
C15_PendingRecordsUnclaimed ==
  \A n \in DOMAIN pending : pending[n].claimed_by = None /\ ~pending[n].claimed_at
(***************************************************************************)
(* C16: a step leaves every file in active that another agent claimed      *)
(* where it is and as it is: only the agent whose id the file name starts  *)
(* with moves, rewrites or deletes it.  A file whose claiming agent takes  *)
(* no further step therefore stays in active for ever.                     *)
(***************************************************************************)
C16_ForeignActiveFilesUntouched ==
  [][\A n \in DOMAIN active :
       pc'[Head(n)] = pc[Head(n)] => (n \in DOMAIN active' /\ active'[n] = active[n])]_vars

\* an agent is about to remove its own active file while another agent's file is in active
C16_Witness ==
  \E n \in DOMAIN active, b \in Agents :
    /\ Head(n) # b
    /\ pc[b] \in {"complete_remove", "fail_remove"}
(***************************************************************************)
(* C17: what an agent may do to the Task Store does not depend on the      *)
(* Heartbeat Registry.  Of two states that differ only in the registry     *)
(* (and in the loop position of the agent that wrote its heartbeat), every *)
(* other agent has the same admissions, claims, completions, failures and  *)
(* retries open to it.                                                     *)
(***************************************************************************)
Decisions(b) ==
  <<ENABLED (should_handle_enter(b) /\ pc'[b] = "oracles"),
    ENABLED (admission(b) /\ pc'[b] = "claim"),
    ENABLED (claim_task(b) /\ pending' # pending),
    ENABLED (execute(b) /\ pc'[b] = "complete"),
    ENABLED (execute(b) /\ pc'[b] = "fail"),
    ENABLED (complete_task(b) /\ completed' # completed),
    ENABLED (fail_task(b) /\ failed' # failed),
    ENABLED (fail_task(b) /\ pending' # pending)>>

ClaimReportsFailure(a) == pc[a] \in {"claim", "stamp"} /\ pc'[a] = "for"

C18_FailedClaimChangesNothing ==
  [][\A a \in Agents :
       ClaimReportsFailure(a) =>
         /\ pc[a] = "stamp" => task_file[a] \in DOMAIN pending'
         /\ ClaimedName(a, task_file[a]) \notin DOMAIN active'
         /\ Path("active", ClaimedName(a, task_file[a])) \notin active_tasks'[a]]_vars
(***************************************************************************)
(* C19: the record a retry re-injects into pending is a new file whose     *)
(* task id differs from the id of the failed attempt.                      *)
(***************************************************************************)
FailTaskSaves(a) == pc[a] = "fail" /\ pc'[a] = "fail_remove"

C19_RetryHasNewId ==
  [][\A a \in Agents :
       FailTaskSaves(a) =>
         \A n \in DOMAIN pending' \ DOMAIN pending :
           pending'[n].id # active[claimed[a].name].id]_vars

(***************************************************************************)
(* C19, amended: the record a retry re-injects into pending is a new file, *)
(* retry_<name of the failed attempt's active file>, a name no pending     *)
(* file had before; its id is the id of the failed attempt.                *)
(***************************************************************************)
C19_RetryIsNewFileSameId ==
  [][\A a \in Agents :
       FailTaskSaves(a) =>
         \A n \in DOMAIN pending' \ DOMAIN pending :
           /\ n = <<"retry">> \o claimed[a].name
           /\ n \notin PendingNames
           /\ pending'[n].id = active[claimed[a].name].id]_vars

\* a retry file is in pending
C19_Witness == \E n \in DOMAIN pending : Head(n) = "retry" /\ pending[n].retry_count >= 1
(***************************************************************************)
(* C20: an agent has at most one file of its own in active, and it calls   *)
(* claim_task only while it has none: a claimed task is resolved before    *)
(* the agent scans and claims again.                                       *)
(***************************************************************************)
ActiveFilesOf(a) == {n \in DOMAIN active : Head(n) = a}

C20_OneClaimAtATime ==
  \A a \in Agents :
    /\ Cardinality(ActiveFilesOf(a)) <= 1
    /\ pc[a] = "claim" => ActiveFilesOf(a) = {}
(***************************************************************************)
(* C21: the loop of monitor_workspace has no exit: after every step each   *)
(* started agent has a next step of its loop open to it, and a step in     *)
(* which an exception reaches the loop's handler (the file of the scan is  *)
(* gone when it is loaded) puts the agent back at the top of the loop,     *)
(* where the next poll cycle starts.                                       *)
(***************************************************************************)
\* load_task raised inside the for loop
LoadRaises(a) ==
  /\ pc[a] = "for"
  /\ pending_tasks[a] # {}
  /\ pc'[a] \notin {"for", "deps"}

C21_LoopNeverExits ==
  [][\A a \in running :
       /\ (ENABLED agent_step(a))'
       /\ LoadRaises(a) => (pc'[a] = "poll" /\ (ENABLED monitor_workspace(a))')]_vars

\* every file left of an agent's scan has been renamed away: its next load raises
C21_Witness ==
  \E a \in running :
    /\ pc[a] = "for"
    /\ pending_tasks[a] # {}
    /\ pending_tasks[a] \cap DOMAIN pending = {}
(***************************************************************************)
(* C22: an agent whose claim_task fails because the file is no longer in   *)
(* pending (another agent renamed it first) goes on with the for loop of   *)
(* the same poll cycle: the rest of its scan is kept, every file of it     *)
(* that is still in pending can be evaluated next, nothing is claimed or   *)
(* recorded, and the loop's error handler is not entered.                  *)
(***************************************************************************)
\* claim_task returns on a file that was renamed away
LostRace(a) ==
  /\ pc[a] = "claim"
  /\ task_file[a] \notin DOMAIN pending
  /\ pc'[a] # "claim"

C22_LostRaceContinuesScan ==
  [][\A a \in running :
       LostRace(a) =>
         /\ pc'[a] = "for"
         /\ pending_tasks'[a] = pending_tasks[a]
         /\ active_tasks'[a] = active_tasks[a]
         /\ store' = store
         /\ \A f \in pending_tasks[a] \cap DOMAIN pending :
              (ENABLED (for_next(a) /\ task_file'[a] = f))']_vars

\* an agent is about to lose a race while its scan still holds a file that is in pending
C22_Witness ==
  \E a \in running :
    /\ pc[a] = "claim"
    /\ task_file[a] \notin DOMAIN pending
    /\ \E b \in running \ {a} : <<b, task_file[a]>> \in winners
    /\ pending_tasks[a] \cap DOMAIN pending # {}
(***************************************************************************)
(* C23: an agent comes to claim_task for a task only through the stages of *)
(* one poll cycle, in order: the dependency check passed, then the cap     *)
(* check passed, then the oracles answered proceed, capable and a fitness  *)
(* score of at least get_threshold().  A stage that rejects sends the      *)
(* agent back to the for loop, whose scan no longer holds the task and     *)
(* only shrinks until the next poll, so the task is not claimed in that    *)
(* cycle.                                                                  *)
(***************************************************************************)
\* the agent moves on to position p
Reaches(a, p) == pc'[a] = p /\ pc[a] # p

C23_ClaimAfterAllStages ==
  [][\A a \in running :
       /\ Reaches(a, "should_handle") => (pc[a] = "deps" /\ dependencies_satisfied(task[a]))
       /\ Reaches(a, "oracles") =>
            (pc[a] = "should_handle" /\ ~at_capacity(a) /\ dependencies_satisfied(task[a]))
       /\ Reaches(a, "claim") =>
            /\ pc[a] = "oracles"
            /\ dependencies_satisfied(task[a])
            /\ ~at_capacity(a)
            /\ task'[a] = task[a] /\ task_file'[a] = task_file[a]
            /\ \A proceed \in BOOLEAN, capable \in BOOLEAN, score \in MinScore..MaxScore :
                 should_handle(a, task[a], proceed, capable, score) =>
                   (proceed /\ capable /\ score >= get_threshold(a))
       /\ (pc[a] \in {"deps", "should_handle", "oracles"} /\ pc'[a] = "for") =>
            (task_file[a] \notin pending_tasks'[a] /\ store' = store)
       /\ (pc[a] # "poll" /\ pc'[a] # "poll") => pending_tasks'[a] \subseteq pending_tasks[a]]_vars

\* an agent is about to call claim_task for a task that had to wait for a dependency
C23_Witness ==
  \E a \in running : pc[a] = "claim" /\ task[a].dependencies # {} /\ task_file[a] \in DOMAIN pending
(***************************************************************************)
(* C24: an agent never claims a task whose requirements are non-empty and  *)
(* share no tag with its capabilities: can_handle is false for such a task *)
(* whatever the capability oracle would answer, the agent never comes to   *)
(* claim_task for it, and no file in active is held by such an agent.      *)
(***************************************************************************)
\* the task asks for something and the agent offers none of it
Mismatched(a, t) == t.requirements # {} /\ t.requirements \cap capabilities(a) = {}

C24_RequirementsGateClaims ==
  /\ \A a \in running :
       /\ (pc[a] = "oracles" /\ Mismatched(a, task[a])) =>
            \A capable \in BOOLEAN : ~can_handle(a, task[a], capable)
       /\ pc[a] \in {"claim", "stamp", "process", "execute"} => ~Mismatched(a, task[a])
  /\ \A n \in DOMAIN active : ~Mismatched(Head(n), active[n])
  /\ \A w \in winners : \A t \in TaskIds : w[2][Len(w[2])] = t => ~Mismatched(w[1], NewTask(t))

\* the oracles are being asked about a task whose requirements the agent does not meet
C24_Witness ==
  \E a \in running : pc[a] = "oracles" /\ Mismatched(a, task[a])
(***************************************************************************)
(* C25: every dependency id stored in a subtask is the id of a subtask     *)
(* that create_subtasks wrote earlier in the same batch: never the         *)
(* subtask's own id, never the id of a later sibling, never an id from     *)
(* outside the batch.                                                      *)
(***************************************************************************)
\* the records, in any stage, of the k-th subtask create_subtasks wrote
SubtaskRecords(k) == RecordsOf(subtask_pool[k])
EarlierSiblings(k) == {subtask_pool[j] : j \in 1..(k - 1)}

C25_DependenciesAreEarlierSiblings ==
  \A k \in DOMAIN subtask_pool :
    \A r \in SubtaskRecords(k) : r.dependencies \subseteq EarlierSiblings(k)
(***************************************************************************)
(* C26: a subtask that lists an earlier subtask of its batch as a          *)
(* dependency is claimed only when that subtask has a record in completed, *)
(* also when another agent polls while create_subtasks is still writing    *)
(* the batch: the claim_task that takes it out of pending finds every      *)
(* dependency in completed, and so does every later state in which it is   *)
(* in active, completed or failed.                                         *)
(***************************************************************************)
InCompleted(id) == \E n \in DOMAIN completed : completed[n].id = id
\* claim_task of agent a takes its file out of pending in this step
Claims(a) == pc[a] = "claim" /\ <<a, task_file[a]>> \in winners' \ winners

C26_SubtasksClaimedInOrder ==
  [][/\ \A a \in running :
          Claims(a) => \A dep_id \in pending[task_file[a]].dependencies : InCompleted(dep_id)
     /\ \A k \in DOMAIN subtask_pool :
          \A d \in {"active", "completed", "failed"} :
            \A n \in DOMAIN Stage(d)' :
              Stage(d)'[n].id = subtask_pool[k] =>
                \A dep_id \in Stage(d)'[n].dependencies : InCompleted(dep_id)']_vars

\* the other agent has claimed the first subtask while create_subtasks is
\* about to write the second, which depends on the first
C26_Witness ==
  /\ Len(subtask_ids) = 1
  /\ Len(steps) >= 2
  /\ steps[2].dependencies = {<<"step", "1">>}
  /\ \E n \in DOMAIN active : active[n].id = subtask_ids[1]
(***************************************************************************)
(* C27: when the parent task has an original_goal, every subtask that      *)
(* create_subtasks writes carries that same original_goal, whichever step  *)
(* of the breakdown it was written for and whatever has happened to it     *)
(* since.                                                                  *)
(***************************************************************************)
C27_SubtasksInheritGoal ==
  \A parent \in RecordsOf("P") :
    parent.original_goal # None =>
      \A k \in DOMAIN subtask_pool :
        \A r \in SubtaskRecords(k) : r.original_goal = parent.original_goal

\* the subtask of a second step has been written and taken up
C27_Witness ==
  /\ \E parent \in RecordsOf("P") : parent.original_goal # None
  /\ SubtaskRecords(1) # {}
  /\ \E n \in DOMAIN active : active[n].id = subtask_pool[2]
(***************************************************************************)
(* C28: every record in completed has a result and a completed_at, and     *)
(* every record in failed has an error and a failed_at, whichever agent    *)
(* class wrote it and whether or not the task was retried on the way.      *)
(***************************************************************************)
C28_TerminalRecordsStamped ==
  /\ \A n \in DOMAIN completed : completed[n].result # None /\ completed[n].completed_at
  /\ \A n \in DOMAIN failed : failed[n].error # None /\ failed[n].failed_at

\* completed holds the record of a task that failed once and was retried
C28_Witness ==
  \E n \in DOMAIN completed : completed[n].retry_count >= 1 /\ completed[n].failed_at
(***************************************************************************)
(* C29: once the agent that completed a task is back from process_task,    *)
(* context/<task-id>_context.json exists and holds the task's id,          *)
(* description, result and original goal as they stand in its completed    *)
(* record.                                                                 *)
(***************************************************************************)
\* the agent that wrote completed file n is still inside complete_task for it
Completing(n) ==
  /\ pc[Head(n)] \in {"complete_remove", "complete_context"}
  /\ claimed[Head(n)].name = n

C30_ContextOnlyGrows ==
  [][context' # context =>
       /\ \A id \in DOMAIN context : id \in DOMAIN context' /\ context'[id] = context[id]
       /\ Cardinality(DOMAIN context' \ DOMAIN context) = 1
       /\ \A a \in running :
            (pc[a] = "complete_context" /\ pc'[a] # pc[a]) =>
               (task[a].id \notin DOMAIN context /\ task[a].id \in DOMAIN context')]_vars

\* a second snapshot is about to be written
C30_Witness ==
  /\ DOMAIN context # {}
  /\ \E a \in running : pc[a] = "complete_context"
(***************************************************************************)
(* C31: the file of a task in completed or failed is named after the task  *)
(* id alone, <task-id>.json.                                               *)
(***************************************************************************)
C31_TerminalFilesNamedById ==
  /\ \A n \in DOMAIN completed : n = PendingName(completed[n].id)
  /\ \A n \in DOMAIN failed : n = PendingName(failed[n].id)
(***************************************************************************)
(* C32: the part of a poll cycle that claims nothing writes nothing under  *)
(* tasks/ or context/.  The heartbeat, the scan, the load, the dependency  *)
(* check, the cap test, the oracles and a claim_task that loses its file   *)
(* to another agent leave the four stage directories and the context       *)
(* directory as they are, and of the registry only the heartbeat step      *)
(* changes anything: the agent's own record.                               *)
(***************************************************************************)
\* a step of agent a's loop that is not a successful claim or part of process_task
NonClaimingStep(a) ==
  \/ pc[a] \in {"poll", "for", "deps", "should_handle", "oracles"} /\ pc'[a] # pc[a]
  \/ LostRace(a)

C32_IdleCycleWritesOnlyHeartbeat ==
  [][\A a \in running :
       NonClaimingStep(a) =>
         /\ store' = store
         /\ context' = context
         /\ \A b \in Agents \ {a} : agents'[b] = agents[b]
         /\ pc[a] # "poll" => agents' = agents
         /\ pc[a] = "poll" => agents'[a] = update_heartbeat(a)
         /\ active_tasks' = active_tasks]_vars

\* an agent has gone through its whole scan and claimed nothing, with a task still pending
C32_Witness ==
  \E a \in running :
    /\ pc[a] = "for"
    /\ pending_tasks[a] = {}
    /\ task_file[a] \in DOMAIN pending
(***************************************************************************)
(* C33: scan_pending_tasks changes nothing in the workspace, and a second  *)
(* scan made right after it, with no step of any agent or producer in      *)
(* between, returns the same set of files: what the agent holds after the  *)
(* step that scans is what a scan of the resulting state returns.          *)
(***************************************************************************)
\* agent a runs the top of its loop: heartbeat, then scan_pending_tasks
Scans(a) == pc[a] = "poll" /\ pc'[a] = "for"

C34_ActiveTasksEmptyAtPoll ==
  \A a \in running : pc[a] = "poll" => active_tasks[a] = {}
(***************************************************************************)
(* C35: a task id has at most one terminal record: never one in completed  *)
(* and one in failed, never two in completed, never two in failed, and a   *)
(* terminal record once written is never written again, however the agents *)
(* interleave and however often the task was retried.                      *)
(***************************************************************************)
FilesOf(dir, t) == {n \in DOMAIN dir : dir[n].id = t}

Resolutions(t) == Cardinality(FilesOf(completed, t)) + Cardinality(FilesOf(failed, t))

C35_OneTerminalResolution ==
  [][\A t \in TaskIds :
       /\ Resolutions(t)' <= 1
       /\ Resolutions(t) = 1 =>
            /\ \A n \in FilesOf(completed, t) : n \in DOMAIN completed' /\ completed'[n] = completed[n]
            /\ \A n \in FilesOf(failed, t) : n \in DOMAIN failed' /\ failed'[n] = failed[n]]_vars

\* the retry of a failed attempt has itself reached a terminal directory
C35_Witness ==
  \E n \in DOMAIN completed \cup DOMAIN failed : "retry" \in {n[i] : i \in DOMAIN n}
(***************************************************************************)
(* C36: whenever an agent invokes the executor on a task, that agent's     *)
(* claim_task on the task's pending file succeeded and no other agent's    *)
(* did, the task is the one it claimed, and this incarnation has not been  *)
(* executed before: the executor has run once for each earlier incarnation *)
(* of the id and never for this one.                                       *)
(***************************************************************************)
Invokes(a) == pc[a] \in {"execute", "breakdown"} /\ pc'[a] # pc[a]

C36_ExecutedOnceByClaimant ==
  [][\A a \in running :
       Invokes(a) =>
         /\ <<a, task_file[a]>> \in winners
         /\ \A b \in Agents \ {a} : <<b, task_file[a]>> \notin winners
         /\ task[a].id = task_file[a][Len(task_file[a])]
         /\ attempts[task[a].id] = task[a].retry_count
         /\ attempts'[task[a].id] = attempts[task[a].id] + 1]_vars

\* an agent is about to execute a retried incarnation it won while another
\* agent, which had chosen the same pending file, lost the race
C36_Witness ==
  \E a \in running, b \in running :
    /\ a # b
    /\ pc[a] = "execute"
    /\ task[a].retry_count >= 1
    /\ task_file[b] = task_file[a]
    /\ <<b, task_file[b]>> \notin winners
(***************************************************************************)
(* C37: once a retried incarnation of a task has completed, every pending  *)
(* task that lists the original task's id among its dependencies, and      *)
(* whose other dependencies are completed, passes dependencies_satisfied.  *)
(* The original id is the one the producer's file was named after, the     *)
(* last part of the retry's file name.                                     *)
(***************************************************************************)
Retried(name) == "retry" \in {name[i] : i \in DOMAIN name}
OriginalId(name) == name[Len(name)]

C37_RetriedCompletionSatisfiesDependents ==
  \A n \in DOMAIN completed :
    Retried(n) =>
      \A m \in DOMAIN pending :
        ( /\ OriginalId(n) \in pending[m].dependencies
          /\ \A dep_id \in pending[m].dependencies \ {OriginalId(n)} : FilesOf(completed, dep_id) # {} )
        => dependencies_satisfied(pending[m])

\* a retried incarnation of T1 has completed and an agent has let T2, which
\* depends on T1, through the dependency check
C37_Witness ==
  \E n \in DOMAIN completed, a \in running :
    /\ Retried(n)
    /\ pc[a] = "should_handle"
    /\ OriginalId(n) \in task[a].dependencies
    /\ task_file[a] \in DOMAIN pending
(***************************************************************************)
(* C38: the file name on disk is the parts of a name joined by "_"; an     *)
(* agent id is itself <agent_type>_<suffix>.  Whenever a claim, stamp,     *)
(* completion, failure or retry writes a file into a stage directory, no   *)
(* file of that directory with the same name on disk held the record of a  *)
(* different task: derived names never collide.                            *)
(***************************************************************************)
NameParts(part) == IF part \in Agents THEN <<agent_type(part), "1">> ELSE <<part>>

RECURSIVE basename(_)
basename(name) == IF name = <<>> THEN <<>> ELSE NameParts(Head(name)) \o basename(Tail(name))

Written(d) == {n \in DOMAIN Stage(d)' : n \notin DOMAIN Stage(d) \/ Stage(d)'[n] # Stage(d)[n]}

C38_NoOverwriteAcrossTasks ==
  [][store' # store =>
       \A d \in Stages : \A n \in Written(d) : \A m \in DOMAIN Stage(d) :
         basename(m) = basename(n) => Stage(d)[m].id = Stage(d)'[n].id]_vars

\* completed holds the retried incarnation of one task beside another task's
\* record, both under derived names
C38_Witness ==
  \E n \in DOMAIN completed, m \in DOMAIN completed :
    /\ Retried(n)
    /\ completed[n].id # completed[m].id
    /\ Len(m) >= 2
====
